---- MODULE Spec2Model ----
(***************************************************************************)
(* Model of TaskF (src/TaskF/task_f.py): the energy report program.        *)
(* The last part models section 2 of the reservation reports of TaskC and  *)
(* TaskG, which share no state with TaskF.                                 *)
(*                                                                         *)
(* The program is sequential and blocks on input().  One action of the     *)
(* model is one line read from the console together with everything the    *)
(* program does until it blocks on the next input() (or ends).             *)
(*                                                                         *)
(* Text is modelled by strings, character by character (strip, split,      *)
(* int, float and isoformat parsing are computed, not assumed).  Floats    *)
(* are modelled as exact rationals Num/Den counted in hundredths; the      *)
(* binary rounding error of Python floats is not modelled.  The en dash of *)
(* the period title and of the month prompt is written "-".                *)
(***************************************************************************)
EXTENDS Integers, Sequences, FiniteSets, TLC

(***************************************************************************)
(* Bounds of the model.                                                    *)
(***************************************************************************)
\* longest date range (in days) whose day-by-day loop is explored
MaxSpanDays == 5

\* the number of passes of a loop evaluated in one stretch
StretchDays == 20

\* longest list of reservations explored
MaxReservations == 3

(***************************************************************************)
(* Program and platform constants.                                         *)
(***************************************************************************)
\* largest value of a C int: date() converts its arguments to C ints
CIntMax == 2147483647
\* datetime.MINYEAR / datetime.MAXYEAR
MinYear == 1
MaxYear == 9999
\* the year of the data set, hard-coded in the month and year reports
DataYear == 2025
\* number of characters read_data samples to detect the delimiter
SampleLen == 2000
\* width of the divider line: "-" * 53
DividerLen == 53
\* bounds given to ask_int_in_range by create_monthly_report
MinMonth == 1
MaxMonth == 12

(***************************************************************************)
(* Strings.                                                                *)
(***************************************************************************)
Ch(s, i) == SubSeq(s, i, i)

\* the characters str.strip() removes that occur in the model's inputs
Whitespace == {" ", "\t", "\n", "\r"}

Digits == {"0", "1", "2", "3", "4", "5", "6", "7", "8", "9"}

DigitVal(c) == CHOOSE d \in 0..9 : ToString(d) = c

RECURSIVE LStrip(_)
LStrip(s) ==
    IF Len(s) > 0 /\ Ch(s, 1) \in Whitespace
    THEN LStrip(SubSeq(s, 2, Len(s)))
    ELSE s

RECURSIVE RStrip(_)
RStrip(s) ==
    IF Len(s) > 0 /\ Ch(s, Len(s)) \in Whitespace
    THEN RStrip(SubSeq(s, 1, Len(s) - 1))
    ELSE s

\* str.strip()
Strip(s) == RStrip(LStrip(s))

\* index of the first occurrence of the character sep in s at or after i,
\* Len(s) + 1 when there is none
FindCh(s, sep, i) ==
    LET First(hits) == IF hits = {} THEN Len(s) + 1
                       ELSE CHOOSE k \in hits : \A j \in hits : k <= j
    IN  First({k \in i..Len(s) : Ch(s, k) = sep})

\* str.split(sep) for a one-character separator: the list of parts
RECURSIVE Split(_, _)
Split(s, sep) ==
    LET k == FindCh(s, sep, 1)
    IN  IF k > Len(s) THEN <<s>>
        ELSE <<SubSeq(s, 1, k - 1)>> \o Split(SubSeq(s, k + 1, Len(s)), sep)

\* sep.join(parts)
RECURSIVE Join(_, _)
Join(parts, sep) ==
    IF Len(parts) = 0 THEN ""
    ELSE IF Len(parts) = 1 THEN parts[1]
    ELSE parts[1] \o sep \o Join(Tail(parts), sep)

\* str.count(c) for a one-character c
Count(s, c) == Cardinality({i \in 1..Len(s) : Ch(s, i) = c})

\* str.replace(a, b) for a one-character a
Replace(s, a, b) == Join(Split(s, a), b)

\* c * n
RECURSIVE Repeat(_, _)
Repeat(c, n) == IF n <= 0 THEN "" ELSE c \o Repeat(c, n - 1)

UpperCase == "ABCDEFGHIJKLMNOPQRSTUVWXYZ"
LowerCase == "abcdefghijklmnopqrstuvwxyz"

\* the lower-case letter of each upper-case letter
LowerOf == [c \in {Ch(UpperCase, k) : k \in 1..Len(UpperCase)} |->
               Ch(LowerCase, FindCh(UpperCase, c, 1))]

LowerCh(c) == IF c \in DOMAIN LowerOf THEN LowerOf[c] ELSE c

\* str.lower() on ASCII text
RECURSIVE Lower(_)
Lower(s) == IF Len(s) = 0 THEN "" ELSE LowerCh(Ch(s, 1)) \o Lower(SubSeq(s, 2, Len(s)))

\* needle in haystack
Contains(haystack, needle) ==
    \E i \in 1..(Len(haystack) - Len(needle) + 1) :
        SubSeq(haystack, i, i + Len(needle) - 1) = needle

(***************************************************************************)
(* int(): optional surrounding whitespace, optional sign, decimal digits   *)
(* with single underscores allowed between digits.  Python integers are    *)
(* unbounded; the model keeps the value when it fits a C int and records   *)
(* big = TRUE otherwise.  ok = FALSE is ValueError.                        *)
(***************************************************************************)
IntError == [ok |-> FALSE, big |-> FALSE, val |-> 0]

ValidDigits(t) ==
    /\ Len(t) > 0
    /\ \A i \in 1..Len(t) : Ch(t, i) \in Digits \cup {"_"}
    /\ Ch(t, 1) # "_"
    /\ Ch(t, Len(t)) # "_"
    /\ \A i \in 1..(Len(t) - 1) : ~(Ch(t, i) = "_" /\ Ch(t, i + 1) = "_")

\* value of a digit string, acc the value so far; -1 when it exceeds CIntMax
RECURSIVE DigitsValue(_, _)
DigitsValue(t, acc) ==
    IF Len(t) = 0 THEN acc
    ELSE IF Ch(t, 1) = "_" THEN DigitsValue(SubSeq(t, 2, Len(t)), acc)
    ELSE LET d == DigitVal(Ch(t, 1))
         IN  IF acc > (CIntMax - d) \div 10 THEN -1
             ELSE DigitsValue(SubSeq(t, 2, Len(t)), acc * 10 + d)

PyInt(s) ==
    LET t    == Strip(s)
        sign == IF Len(t) > 0 /\ Ch(t, 1) \in {"+", "-"} THEN Ch(t, 1) ELSE ""
        body == SubSeq(t, Len(sign) + 1, Len(t))
    IN  IF ~ValidDigits(body) THEN IntError
        ELSE LET v == DigitsValue(body, 0)
             IN  IF v < 0 THEN [ok |-> TRUE, big |-> TRUE, val |-> 0]
                 ELSE [ok |-> TRUE, big |-> FALSE,
                       val |-> IF sign = "-" THEN 0 - v ELSE v]

(***************************************************************************)
(* datetime.date                                                           *)
(***************************************************************************)
IsLeap(y) == y % 4 = 0 /\ (y % 100 # 0 \/ y % 400 = 0)

DaysInMonth(y, m) ==
    IF m = 2 THEN (IF IsLeap(y) THEN 29 ELSE 28)
    ELSE IF m \in {4, 6, 9, 11} THEN 30 ELSE 31

\* date(year, month, day) with int arguments as PyInt returns them
PyDate(year, month, day) ==
    IF year.big \/ month.big \/ day.big THEN [err |-> "OverflowError"]
    ELSE IF \/ year.val < MinYear \/ year.val > MaxYear
            \/ month.val < 1 \/ month.val > 12
            \/ day.val < 1
            \/ day.val > DaysInMonth(year.val, month.val)
         THEN [err |-> "ValueError"]
    ELSE [err |-> "", year |-> year.val, month |-> month.val, day |-> day.val]

MkDate(y, m, d) == [err |-> "", year |-> y, month |-> m, day |-> d]

\* date.__lt__ and date.__le__
DateLT(a, b) ==
    \/ a.year < b.year
    \/ a.year = b.year /\ a.month < b.month
    \/ a.year = b.year /\ a.month = b.month /\ a.day < b.day

\* date.__le__ that holds only for an earlier date
DateLEStrict(a, b) == DateLT(a, b)

DateLE(a, b) == a = b \/ DateLT(a, b)

\* the days of a common year before the first of each month
DaysBeforeMonthCommon == <<0, 31, 59, 90, 120, 151, 181, 212, 243, 273, 304, 334>>

DaysBeforeMonth(y, m) ==
    DaysBeforeMonthCommon[m] + (IF m > 2 /\ IsLeap(y) THEN 1 ELSE 0)

DaysBeforeYear(y) ==
    LET p == y - 1 IN p * 365 + (p \div 4) - (p \div 100) + (p \div 400)

\* date.toordinal(): 1 for 0001-01-01
ToOrdinal(d) == DaysBeforeYear(d.year) + DaysBeforeMonth(d.year, d.month) + d.day

MaxOrdinal == ToOrdinal(MkDate(MaxYear, 12, 31))

\* date.fromordinal(n): ValueError outside 1..MaxOrdinal
FromOrdinal(n) ==
    IF n < 1 \/ n > MaxOrdinal THEN [err |-> "ValueError"]
    ELSE
      LET n0   == n - 1
          n400 == n0 \div 146097
          r400 == n0 % 146097
          n100 == r400 \div 36524
          r100 == r400 % 36524
          n4   == r100 \div 1461
          r4   == r100 % 1461
          n1   == r4 \div 365
          r1   == r4 % 365
          year == n400 * 400 + 1 + n100 * 100 + n4 * 4 + n1
      IN  IF n1 = 4 \/ n100 = 4 THEN MkDate(year - 1, 12, 31)
          ELSE
            LET month == CHOOSE m \in 1..12 :
                             /\ DaysBeforeMonth(year, m) <= r1
                             /\ r1 < DaysBeforeMonth(year, m) + DaysInMonth(year, m)
            IN  MkDate(year, month, r1 - DaysBeforeMonth(year, month) + 1)

(***************************************************************************)
(* Floats: exact rationals n/d (d > 0) counted in hundredths, so that      *)
(* 12.34 is [n |-> 1234, d |-> 1].                                         *)
(***************************************************************************)
Rat(n, d) == [n |-> n, d |-> d]

Zero == Rat(0, 1)

RatAdd(a, b) == IF a.d = b.d THEN Rat(a.n + b.n, a.d)
                ELSE Rat(a.n * b.d + b.n * a.d, a.d * b.d)

\* a / k for an integer k > 0
RatDivInt(a, k) == Rat(a.n, a.d * k)

\* sum() of a list of floats
RECURSIVE RatSum(_)
RatSum(xs) == IF Len(xs) = 0 THEN Zero ELSE RatAdd(xs[1], RatSum(Tail(xs)))

RECURSIVE Pow10(_)
Pow10(k) == IF k <= 0 THEN 1 ELSE 10 * Pow10(k - 1)

AllDigits(t) == \A i \in 1..Len(t) : Ch(t, i) \in Digits

\* float(): surrounding whitespace, optional sign, decimal digits with an
\* optional fraction.  Exponents, inf and nan do not occur in the model's
\* files.  ok = FALSE is ValueError.
PyFloat(s) ==
    LET t     == Strip(s)
        sign  == IF Len(t) > 0 /\ Ch(t, 1) \in {"+", "-"} THEN Ch(t, 1) ELSE ""
        body  == SubSeq(t, Len(sign) + 1, Len(t))
        k     == FindCh(body, ".", 1)
        whole == SubSeq(body, 1, k - 1)
        frac  == SubSeq(body, k + 1, Len(body))
    IN  IF \/ ~AllDigits(whole) \/ ~AllDigits(frac)
           \/ Len(whole) + Len(frac) = 0
        THEN [ok |-> FALSE, val |-> Zero]
        ELSE LET mag == DigitsValue(whole \o frac, 0) * 100
             IN  [ok |-> TRUE,
                  val |-> Rat(IF sign = "-" THEN 0 - mag ELSE mag, Pow10(Len(frac)))]

\* parse_float_fi: float(value.strip().replace(",", "."))
parse_float_fi(value) == PyFloat(Replace(Strip(value), ",", "."))

TwoDigits(k) == IF k < 10 THEN "0" \o ToString(k) ELSE ToString(k)

\* f"{value:.2f}": the decimal nearest to the value, ties to even; the sign
\* is the sign of the value itself, so a small negative value is "-0.00"
Fixed2(value) ==
    LET a   == IF value.n < 0 THEN 0 - value.n ELSE value.n
        q   == a \div value.d
        r   == a % value.d
        h   == IF 2 * r > value.d \/ (2 * r = value.d /\ q % 2 = 1) THEN q + 1 ELSE q
    IN  (IF value.n < 0 THEN "-" ELSE "")
            \o ToString(h \div 100) \o "." \o TwoDigits(h % 100)

\* format_float_fi that keeps the decimal point
format_float_point(value) == Fixed2(value)

\* format_float_fi
format_float_fi(value) == Replace(Fixed2(value), ".", ",")

\* format_date_fi: no leading zeros
format_date_fi(d) == ToString(d.day) \o "." \o ToString(d.month) \o "." \o ToString(d.year)

(***************************************************************************)
(* datetime.fromisoformat for the shapes YYYY-MM-DD and                    *)
(* YYYY-MM-DD<sep>HH:MM:SS; err = "ValueError" for anything else.          *)
(***************************************************************************)
Num(t) == DigitsValue(t, 0)

FromIsoFormat(s) ==
    LET dateOk == /\ Len(s) >= 10
                  /\ AllDigits(SubSeq(s, 1, 4)) /\ Ch(s, 5) = "-"
                  /\ AllDigits(SubSeq(s, 6, 7)) /\ Ch(s, 8) = "-"
                  /\ AllDigits(SubSeq(s, 9, 10))
        timeOk == \/ Len(s) = 10
                  \/ /\ Len(s) = 19
                     /\ AllDigits(SubSeq(s, 12, 13)) /\ Ch(s, 14) = ":"
                     /\ AllDigits(SubSeq(s, 15, 16)) /\ Ch(s, 17) = ":"
                     /\ AllDigits(SubSeq(s, 18, 19))
    IN  IF ~(dateOk /\ timeOk) THEN [err |-> "ValueError"]
        ELSE
          LET y  == Num(SubSeq(s, 1, 4))
              m  == Num(SubSeq(s, 6, 7))
              d  == Num(SubSeq(s, 9, 10))
              hh == IF Len(s) = 19 THEN Num(SubSeq(s, 12, 13)) ELSE 0
              mm == IF Len(s) = 19 THEN Num(SubSeq(s, 15, 16)) ELSE 0
              ss == IF Len(s) = 19 THEN Num(SubSeq(s, 18, 19)) ELSE 0
          IN  IF \/ y < MinYear \/ m < 1 \/ m > 12 \/ d < 1
                 \/ d > DaysInMonth(y, m) \/ hh > 23 \/ mm > 59 \/ ss > 59
              THEN [err |-> "ValueError"]
              ELSE [err |-> "", year |-> y, month |-> m, day |-> d,
                    hour |-> hh, minute |-> mm, second |-> ss]

\* datetime.date()
DateOf(ts) == MkDate(ts.year, ts.month, ts.day)

(***************************************************************************)
(* class Measurement                                                       *)
(***************************************************************************)
Measurement(ts, cons, prod, temp) ==
    [timestamp |-> ts, consumption_kwh |-> cons,
     production_kwh |-> prod, temperature_c |-> temp]

(***************************************************************************)
(* csv.DictReader on text without quoting: the first line is the header,   *)
(* empty lines are skipped, a short row leaves its last keys None.         *)
(***************************************************************************)
\* the lines of a text; a final newline does not start another line
Lines(text) ==
    LET parts == Split(text, "\n")
    IN  IF parts[Len(parts)] = "" THEN SubSeq(parts, 1, Len(parts) - 1) ELSE parts

CsvRow(line, delimiter) == IF line = "" THEN <<>> ELSE Split(line, delimiter)

\* a cell of a row dict: a string or None
Cell(s) == [none |-> FALSE, s |-> s]
None == [none |-> TRUE, s |-> ""]

\* str(x) of a cell
Str(c) == IF c.none THEN "None" ELSE c.s

\* row.get(key, default): the dict is zip(fieldnames, row) with the keys the
\* row is too short for set to None; the last of equal keys wins
RowGet(fieldnames, row, key, default) ==
    LET Value(i) == IF i <= Len(row) THEN Cell(row[i]) ELSE None
        Last(idx) == IF idx = {} THEN default
                     ELSE Value(CHOOSE j \in idx : \A k \in idx : k <= j)
    IN  Last({i \in 1..Len(fieldnames) : fieldnames[i] = key})

\* the values of {name: name.strip() for name in fieldnames}, in dict order
RECURSIVE NormalizedFrom(_, _)
NormalizedFrom(fieldnames, i) ==
    IF i > Len(fieldnames) THEN <<>>
    ELSE IF \E j \in 1..(i - 1) : fieldnames[j] = fieldnames[i]
         THEN NormalizedFrom(fieldnames, i + 1)
         ELSE <<Strip(fieldnames[i])>> \o NormalizedFrom(fieldnames, i + 1)

Normalized(fieldnames) == NormalizedFrom(fieldnames, 1)

ExactMatch(fn, cand) == Lower(fn) = Lower(cand)
SubstringMatch(fn, cand) == Contains(Lower(fn), Lower(cand))

\* index of the header of the first (candidate, header) pair that matches,
\* candidates in the outer loop, exactly or by substring; 0 if none does
FirstMatch(normalized, candidates, exact) ==
    LET First(hits) ==
            IF hits = {} THEN 0
            ELSE (CHOOSE p \in hits : \A q \in hits :
                      p[1] < q[1] \/ (p[1] = q[1] /\ p[2] <= q[2]))[2]
    IN  First({p \in (1..Len(candidates)) \X (1..Len(normalized)) :
                  IF exact THEN ExactMatch(normalized[p[2]], candidates[p[1]])
                  ELSE SubstringMatch(normalized[p[2]], candidates[p[1]])})

\* find_col: ok = FALSE is ValueError
find_col(normalized, candidates) ==
    LET Substring(c) == IF c # 0 THEN [ok |-> TRUE, name |-> normalized[c]]
                        ELSE [ok |-> FALSE, name |-> ""]
        Exact(e) == IF e # 0 THEN [ok |-> TRUE, name |-> normalized[e]]
                    ELSE Substring(FirstMatch(normalized, candidates, FALSE))
    IN  Exact(FirstMatch(normalized, candidates, TRUE))

TimeCandidates == <<"timestamp", "aika", "time">>
ConsCandidates == <<"consumption", "kulutus", "consumption (net) in kwh", "consumption_kwh">>
ProdCandidates == <<"production", "tuotanto", "production (net) in kwh", "production_kwh">>
TempCandidates == <<"temperature", "avg temperature", "daily average temperature",
                    "lampotila", "lämpötila", "temp">>

\* DetectDelimiter that counts in the whole text
DetectDelimiterWholeText(text) ==
    IF Count(text, ";") >= Count(text, ",") THEN ";" ELSE ","

\* the delimiter read_data detects from the first SampleLen characters
DetectDelimiter(text) ==
    LET sample == SubSeq(text, 1, IF Len(text) < SampleLen THEN Len(text) ELSE SampleLen)
    IN  IF Count(sample, ";") >= Count(sample, ",") THEN ";" ELSE ","

\* the loop of read_data over the data lines from line i on; acc is the
\* list rows as appended to so far
RECURSIVE ReadRows(_, _, _, _, _, _, _, _, _)
ReadRows(lines, i, delimiter, fieldnames, col_time, col_cons, col_prod, col_temp, acc) ==
    IF i > Len(lines) THEN [err |-> "", rows |-> acc]
    ELSE
      LET row  == CsvRow(lines[i], delimiter)
          tc   == RowGet(fieldnames, row, col_time, None)
          time_str == Strip(IF tc.none THEN "" ELSE tc.s)
      IN  IF row = <<>> \/ time_str = ""
          THEN ReadRows(lines, i + 1, delimiter, fieldnames,
                        col_time, col_cons, col_prod, col_temp, acc)
          ELSE
            LET ts   == FromIsoFormat(time_str)
                cons == parse_float_fi(Str(RowGet(fieldnames, row, col_cons, Cell("0"))))
                prod == parse_float_fi(Str(RowGet(fieldnames, row, col_prod, Cell("0"))))
                temp == parse_float_fi(Str(RowGet(fieldnames, row, col_temp, Cell("0"))))
            IN  IF ts.err # "" \/ ~cons.ok \/ ~prod.ok \/ ~temp.ok
                THEN [err |-> "ValueError", rows |-> <<>>]
                ELSE ReadRows(lines, i + 1, delimiter, fieldnames,
                              col_time, col_cons, col_prod, col_temp,
                              Append(acc, Measurement(ts, cons.val, prod.val, temp.val)))

\* read_data from the DictReader on: the lines of the file read with the
\* delimiter given, up to the end of the loop over the rows
ReadDelimited(lines, delimiter) ==
    LET Loop(fieldnames, col_time, col_cons, col_prod, col_temp) ==
            IF ~col_time.ok \/ ~col_cons.ok \/ ~col_prod.ok \/ ~col_temp.ok
            THEN [err |-> "ValueError", rows |-> <<>>]
            ELSE ReadRows(lines, 2, delimiter, fieldnames, col_time.name,
                          col_cons.name, col_prod.name, col_temp.name, <<>>)
        Columns(fieldnames, normalized) ==
            Loop(fieldnames,
                 find_col(normalized, TimeCandidates),
                 find_col(normalized, ConsCandidates),
                 find_col(normalized, ProdCandidates),
                 find_col(normalized, TempCandidates))
        Header(fieldnames) == Columns(fieldnames, Normalized(fieldnames))
    IN  Header(IF Len(lines) = 0 THEN <<>> ELSE CsvRow(lines[1], delimiter))

\* read_data(path) on a file [exists, text], up to the end of its loop
LoadRows(file) ==
    IF ~file.exists THEN [err |-> "FileNotFoundError", rows |-> <<>>]
    ELSE ReadDelimited(Lines(file.text), DetectDelimiter(file.text))

\* read_data without the check that rows were read
read_data_unchecked(file) == LoadRows(file)

\* read_data(path): the loaded rows, ValueError if there are none
read_data(file) ==
    LET Checked(r) ==
            IF r.err = "" /\ r.rows = <<>> THEN [err |-> "ValueError", rows |-> <<>>]
            ELSE r
    IN  Checked(LoadRows(file))

(***************************************************************************)
(* The daily index: a dict, modelled as the list of its items in insertion *)
(* order, [key |-> date, rows |-> list of measurements].                   *)
(***************************************************************************)
HasKey(daily, d) == \E i \in 1..Len(daily) : daily[i].key = d

\* daily.get(d, [])
DailyGet(daily, d) ==
    IF HasKey(daily, d)
    THEN daily[CHOOSE i \in 1..Len(daily) : daily[i].key = d].rows
    ELSE <<>>

\* daily[d] = [m]: SetDefaultAppend that starts the bucket anew
SetDefaultReplace(daily, d, m) ==
    IF HasKey(daily, d)
    THEN [i \in 1..Len(daily) |->
            IF daily[i].key = d THEN [key |-> d, rows |-> <<m>>] ELSE daily[i]]
    ELSE Append(daily, [key |-> d, rows |-> <<m>>])

\* daily.setdefault(d, []).append(m)
SetDefaultAppend(daily, d, m) ==
    IF HasKey(daily, d)
    THEN [i \in 1..Len(daily) |->
            IF daily[i].key = d
            THEN [key |-> d, rows |-> Append(daily[i].rows, m)]
            ELSE daily[i]]
    ELSE Append(daily, [key |-> d, rows |-> <<m>>])

RECURSIVE BuildFrom(_, _, _)
BuildFrom(rows, i, daily) ==
    IF i > Len(rows) THEN daily
    ELSE BuildFrom(rows, i + 1, SetDefaultAppend(daily, DateOf(rows[i].timestamp), rows[i]))

build_daily_index(rows) == BuildFrom(rows, 1, <<>>)

(***************************************************************************)
(* Report builders.  The prompts of create_daily_report and                *)
(* create_monthly_report are separate actions below; the operators here    *)
(* are the computation that follows them, on the values the prompts        *)
(* returned.  Each yields [err, lines]; err # "" is an exception raised.   *)
(***************************************************************************)
Divider == Repeat("-", DividerLen)

MetricLines(total_cons, total_prod, avg_temp) ==
    << "- Total consumption: " \o format_float_fi(total_cons) \o " kWh",
       "- Total production: " \o format_float_fi(total_prod) \o " kWh",
       "- Average temperature: " \o format_float_fi(avg_temp) \o " °C" >>

\* [m.consumption_kwh for m in rows] and its like
ConsOf(rows) == [i \in 1..Len(rows) |-> rows[i].consumption_kwh]
ProdOf(rows) == [i \in 1..Len(rows) |-> rows[i].production_kwh]
TempOf(rows) == [i \in 1..Len(rows) |-> rows[i].temperature_c]

\* (sum(xs) / len(xs)) if xs else 0.0
Mean(xs) == IF Len(xs) = 0 THEN Zero ELSE RatDivInt(RatSum(xs), Len(xs))

\* what daily.setdefault(d, []) would leave of the dict
AfterSetDefault(daily, d) ==
    IF HasKey(daily, d) THEN daily ELSE Append(daily, [key |-> d, rows |-> <<>>])

\* what daily.get(d, []) leaves of the dict: dict.get inserts nothing
AfterGet(daily, d) == daily

\* at most n passes of the while loop of create_daily_report from day cur
\* on; acc holds total_cons, total_prod and temps, and the dict as the
\* passes leave it.  Yields the day reached and acc.
RECURSIVE DayStretch(_, _, _, _)
DayStretch(cur, end, acc, n) ==
    IF n = 0 \/ ~DateLE(cur, end) THEN [cur |-> cur, acc |-> acc]
    ELSE
      LET Pass(rows, next) ==
              LET Continue(acc2) ==
                      IF acc2.err = "" /\ next.err # ""
                      THEN [cur |-> cur, acc |-> [acc2 EXCEPT !.err = next.err]]
                      ELSE DayStretch(next, end, acc2, n - 1)
              IN  Continue([err |-> "",
                            total_cons |-> RatAdd(acc.total_cons, RatSum(ConsOf(rows))),
                            total_prod |-> RatAdd(acc.total_prod, RatSum(ProdOf(rows))),
                            temps |-> acc.temps \o TempOf(rows),
                            daily |-> AfterGet(acc.daily, cur)])
      IN  Pass(DailyGet(acc.daily, cur), FromOrdinal(ToOrdinal(cur) + 1))

\* the while loop of create_daily_report from day cur on, evaluated in
\* stretches of StretchDays passes
RECURSIVE DayLoop(_, _, _, _)
DayLoop(daily, cur, end, acc) ==
    LET Continue(s) ==
            IF s.acc.err # "" \/ ~DateLE(s.cur, end) THEN s.acc
            ELSE DayLoop(s.acc.daily, s.cur, end, s.acc)
    IN  Continue(DayStretch(cur, end, [acc EXCEPT !.daily = daily], StretchDays))

\* create_daily_report once start <= end
RangeBody(daily, start, end) ==
    LET ReportLines(acc) ==
            IF acc.err # "" THEN [err |-> acc.err, lines |-> <<>>, daily |-> acc.daily]
            ELSE [err |-> "",
                  lines |-> << Divider,
                               "Report for the period " \o format_date_fi(start)
                                   \o "-" \o format_date_fi(end) >>
                            \o MetricLines(acc.total_cons, acc.total_prod, Mean(acc.temps)),
                  daily |-> acc.daily]
    IN  ReportLines(DayLoop(daily, start, end,
                        [err |-> "", total_cons |-> Zero, total_prod |-> Zero,
                         temps |-> <<>>, daily |-> daily]))

\* create_daily_report without the exchange of the dates
create_daily_report_unswapped(daily, start, end) == RangeBody(daily, start, end)

\* create_daily_report after its two prompts
create_daily_report(daily, start, end) ==
    IF DateLT(end, start) THEN RangeBody(daily, end, start)
    ELSE RangeBody(daily, start, end)

MonthNames == << "January", "February", "March", "April", "May", "June",
                 "July", "August", "September", "October", "November", "December" >>

month_name_en(month) == MonthNames[month]

\* MonthLoop that collects every reading instead of one average per day
RECURSIVE MonthLoopFlat(_, _, _, _)
MonthLoopFlat(daily, month, i, acc) ==
    IF i > Len(daily) THEN acc
    ELSE
      LET d    == daily[i].key
          rows == daily[i].rows
      IN  IF d.year = DataYear /\ d.month = month
          THEN MonthLoopFlat(daily, month, i + 1,
                   [total_cons |-> RatAdd(acc.total_cons, RatSum(ConsOf(rows))),
                    total_prod |-> RatAdd(acc.total_prod, RatSum(ProdOf(rows))),
                    daily_avg_temps |-> acc.daily_avg_temps \o TempOf(rows)])
          ELSE MonthLoopFlat(daily, month, i + 1, acc)

\* the for loop of create_monthly_report over daily.items() from item i on
RECURSIVE MonthLoop(_, _, _, _)
MonthLoop(daily, month, i, acc) ==
    IF i > Len(daily) THEN acc
    ELSE
      LET d    == daily[i].key
          rows == daily[i].rows
      IN  IF d.year = DataYear /\ d.month = month
          THEN MonthLoop(daily, month, i + 1,
                   [total_cons |-> RatAdd(acc.total_cons, RatSum(ConsOf(rows))),
                    total_prod |-> RatAdd(acc.total_prod, RatSum(ProdOf(rows))),
                    daily_avg_temps |-> Append(acc.daily_avg_temps, Mean(TempOf(rows)))])
          ELSE MonthLoop(daily, month, i + 1, acc)

\* create_monthly_report after its prompt
create_monthly_report(daily, month) ==
    LET ReportLines(acc) ==
            << Divider, "Report for the month: " \o month_name_en(month) >>
                \o MetricLines(acc.total_cons, acc.total_prod, Mean(acc.daily_avg_temps))
    IN  ReportLines(MonthLoop(daily, month, 1,
                   [total_cons |-> Zero, total_prod |-> Zero, daily_avg_temps |-> <<>>]))

\* YearRows that keeps the measurements of every year
YearRowsOfAnyYear(rows) == rows

\* [m for m in rows if m.timestamp.year == 2025]
RECURSIVE YearRows(_)
YearRows(rows) ==
    IF Len(rows) = 0 THEN <<>>
    ELSE (IF rows[1].timestamp.year = DataYear THEN <<rows[1]>> ELSE <<>>)
            \o YearRows(Tail(rows))

create_yearly_report(rows) ==
    LET ReportLines(year_rows) ==
            << Divider, "Report for the year: 2025" >>
                \o MetricLines(RatSum(ConsOf(year_rows)), RatSum(ProdOf(year_rows)),
                               Mean(TempOf(year_rows)))
    IN  ReportLines(YearRows(rows))

(***************************************************************************)
(* Console and files.                                                      *)
(***************************************************************************)
\* print(): the console after more lines are written
Emit(con, lines) == con \o lines

\* print_report_to_console with a loop that stops one line early
print_report_short(con, lines) == Emit(con, SubSeq(lines, 1, Len(lines) - 1))

\* print_report_to_console
print_report_to_console(con, lines) == Emit(con, lines)

\* show_main_menu up to the point where it waits for the line
MainMenuLines ==
    << "", "Choose a report type:",
       "1) Daily summary for a date range",
       "2) Monthly summary for one month",
       "3) Full year 2025 summary",
       "4) Exit the program",
       "Choose (1-4): " >>

\* show_after_menu up to the point where it waits for the line
AfterMenuLines ==
    << "", "What would you like to do next?",
       "1) Write the report to the file report.txt",
       "2) Create a new report",
       "3) Exit",
       "Choose (1-3): " >>

StartPrompt == "Enter start date (dd.mm.yyyy): "
EndPrompt == "Enter end date (dd.mm.yyyy): "
MonthPrompt == "Enter month number (1-12): "
InvalidDateMsg == "Invalid date. Use format dd.mm.yyyy (e.g., 1.11.2025 or 01.11.2025)."
InvalidNumberMsg == "Invalid number. Try again."
RangeMsg(min_v, max_v) ==
    "Please enter a number between " \o ToString(min_v) \o " and " \o ToString(max_v) \o "."

\* write_report_to_file with the file opened for appending
write_report_appending(file, lines) ==
    [exists |-> TRUE,
     text |-> (IF file.exists THEN file.text ELSE "") \o Join(lines, "\n") \o "\n"]

\* write_report_to_file on the file as it is: open(path, "w") empties or
\* creates it, then one write
write_report_to_file(file, lines) ==
    [exists |-> TRUE, text |-> Join(lines, "\n") \o "\n"]

\* MainChoice with an else branch that leaves the loop
MainChoiceElseExit(choice) ==
    CASE choice = "1" -> "range"
      [] choice = "2" -> "month"
      [] choice = "3" -> "year"
      [] OTHER -> "exit"

\* the branch main() takes on the choice made in the main menu
MainChoice(choice) ==
    CASE choice = "1" -> "range"
      [] choice = "2" -> "month"
      [] choice = "3" -> "year"
      [] choice = "4" -> "exit"
      [] OTHER -> "unknown"

\* AfterChoice that also writes the report on the choice of a new report
AfterChoiceSaveOnNew(after) ==
    CASE after = "1" -> "write"
      [] after = "2" -> "write"
      [] after = "3" -> "exit"
      [] OTHER -> "unknown"

\* AfterChoice with an else branch that breaks out to the main menu
AfterChoiceElseNew(after) ==
    CASE after = "1" -> "write"
      [] after = "3" -> "exit"
      [] OTHER -> "new"

\* the branch main() takes on the choice made in the after-report menu
AfterChoice(after) ==
    CASE after = "1" -> "write"
      [] after = "2" -> "new"
      [] after = "3" -> "exit"
      [] OTHER -> "unknown"

(***************************************************************************)
(* One pass of the loop of parse_date_input on the line read:              *)
(* kind "return" with the date, "retry" (ValueError caught, message        *)
(* printed, prompt repeated) or "raise" with the exception that leaves     *)
(* the loop.                                                               *)
(***************************************************************************)
parse_date_input(line) ==
    LET raw   == Strip(line)
        parts == Split(raw, ".")
    IN  IF Len(parts) # 3 THEN [kind |-> "retry"]
        ELSE
          LET day   == PyInt(parts[1])
              month == PyInt(parts[2])
              year  == PyInt(parts[3])
          IN  IF ~day.ok \/ ~month.ok \/ ~year.ok THEN [kind |-> "retry"]
              ELSE
                LET d == PyDate(year, month, day)
                IN  IF d.err = "" THEN [kind |-> "return", date |-> d]
                    ELSE IF d.err = "ValueError" THEN [kind |-> "retry"]
                    ELSE [kind |-> "raise", err |-> d.err]

\* one pass of the loop of ask_int_in_range on the line read
ask_int_in_range(line, min_v, max_v) ==
    LET val == PyInt(Strip(line))
    IN  IF ~val.ok THEN [kind |-> "retry", msg |-> InvalidNumberMsg]
        ELSE IF ~val.big /\ min_v <= val.val /\ val.val <= max_v
             THEN [kind |-> "return", val |-> val.val]
        ELSE [kind |-> "retry", msg |-> RangeMsg(min_v, max_v)]

(***************************************************************************)
(* The data files and the lines typed at the prompts that the model        *)
(* explores.                                                               *)
(***************************************************************************)
\* the example of the specification: two days of January 2025
CsvJanuary ==
    "timestamp;consumption;production;temperature\n"
        \o "2025-01-01T00:00:00;1000;500;5,0\n"
        \o "2025-01-01T01:00:00;1000;500;7,0\n"
        \o "2025-01-02T00:00:00;2000;0;10,0\n"

\* comma separated, long header names, a day with one reading and a day
\* with three, a day of another month and a day of another year, not in
\* the order of time
CsvMixed ==
    "Time,Consumption (net) in kWh,Production (net) in kWh,Daily average temperature\n"
        \o "2025-01-01T00:00:00,1.5,0.25,10\n"
        \o "2025-01-02T00:00:00,2,0,0\n"
        \o "2024-01-02T12:00:00,4,1,8\n"
        \o "2025-01-02T01:00:00,2,0.5,0\n"
        \o "2025-02-01T00:00:00,3,1,-4.5\n"
        \o "2025-01-02T02:00:00,2,0,0\n"

CsvHeaderOnly == "timestamp;consumption;production;temperature\n"

CsvNoTemperature ==
    "timestamp;consumption;production\n" \o "2025-01-01T00:00:00;1000;500\n"

MissingFile == [exists |-> FALSE, text |-> ""]

CsvFiles ==
    {MissingFile} \cup
    {[exists |-> TRUE, text |-> t] :
        t \in {"", CsvHeaderOnly, CsvNoTemperature, CsvJanuary, CsvMixed}}

\* report.txt before the program starts: absent or left by an earlier run
ReportFiles == {[exists |-> FALSE, text |-> ""], [exists |-> TRUE, text |-> "old report\n"]}

MainMenuInputs == {"1", "2", "3", "4", " 3 ", "5", ""}

AfterMenuInputs == {"1", "2", "3", " 1 ", "4"}

DateInputs ==
    {"1.1.2025", " 03.01.2025 ", "31.12.9999",
     "29.2.2025", "1.1.10000", "1.1", "a.1.2025", "1.1.2147483648"}

MonthInputs == {"1", " 2 ", "13", "-3", "march", "2147483648"}

NoDate == [err |-> "none"]
NoRequest == [kind |-> "none"]
NoWrite == "no write"

\* what a write of lines to the file replaces
Replaced(file, lines) ==
    IF ~file.exists THEN "no file"
    ELSE IF Split(file.text, "\n")[1] # Divider THEN "earlier run"
    ELSE IF Split(file.text, "\n") = lines \o <<"">> THEN "same report"
    ELSE "other report"

(***************************************************************************)
(* State.                                                                  *)
(***************************************************************************)
VARIABLES
    pc,           \* where main() is: "Start", the prompt it waits at, or how it ended
    error,        \* the exception that ended main(), "" if none
    csv,          \* the file 2025.csv
    report_file,  \* the file report.txt
    rows,         \* main's rows
    daily,        \* main's daily
    last_report,  \* main's last_report
    start,        \* create_daily_report's start while the end date is asked
    request,      \* what the last report was asked for, as entered
    stdin,        \* the last line read from the console
    overwritten,  \* what the last write to report.txt replaced
    console       \* the lines written to the console since the last line was read

\* the state of the reservation reports of TaskC and TaskG
VARIABLES
    reservations,  \* the list fetch_reservations returned
    stdout_c,      \* what TaskC/task_c.py printed for its section 2
    stdout_dict,   \* what TaskG/task_g_dict.py printed for its section 2
    stdout_class   \* what TaskG/task_g_class.py printed for its section 2

reservation_vars == <<reservations, stdout_c, stdout_dict, stdout_class>>

vars == <<pc, error, csv, report_file, rows, daily, last_report, start, request,
          stdin, overwritten, console, reservation_vars>>

\* the reservation reports are not run
NoReservationRun ==
    /\ reservations = <<>>
    /\ stdout_c = <<>>
    /\ stdout_dict = <<>>
    /\ stdout_class = <<>>

Init ==
    /\ pc = "Start"
    /\ error = ""
    /\ csv \in CsvFiles
    /\ report_file \in ReportFiles
    /\ rows = <<>>
    /\ daily = <<>>
    /\ last_report = <<>>
    /\ start = NoDate
    /\ request = NoRequest
    /\ stdin = ""
    /\ overwritten = NoWrite
    /\ console = <<>>
    /\ NoReservationRun

\* an exception leaves main(): the process ends with a traceback
Raise(exc, state) ==
    /\ pc' = state
    /\ error' = exc

\* main() up to the first prompt of the main menu
Startup ==
    /\ pc = "Start"
    /\ \E r \in {read_data(csv)} :
           IF r.err # ""
           THEN /\ Raise(r.err, "Aborted")
                /\ UNCHANGED <<rows, daily, console>>
           ELSE /\ rows' = r.rows
                /\ daily' = build_daily_index(r.rows)
                /\ console' = Emit(<<>>, MainMenuLines)
                /\ pc' = "MainMenu"
                /\ error' = ""
    /\ UNCHANGED <<csv, report_file, last_report, start, request, stdin, overwritten>>
    /\ UNCHANGED reservation_vars

\* a line read by show_main_menu, up to the next prompt
MainMenuInput(line) ==
    /\ pc = "MainMenu"
    /\ stdin' = line
    /\ LET choice == MainChoice(Strip(line))
       IN  CASE choice = "range" ->
                  /\ pc' = "AskStart"
                  /\ console' = Emit(<<>>, <<StartPrompt>>)
                  /\ UNCHANGED <<last_report, request>>
             [] choice = "month" ->
                  /\ pc' = "AskMonth"
                  /\ console' = Emit(<<>>, <<MonthPrompt>>)
                  /\ UNCHANGED <<last_report, request>>
             [] choice = "year" ->
                  /\ last_report' = create_yearly_report(rows)
                  /\ request' = [kind |-> "year"]
                  /\ console' = Emit(print_report_to_console(<<>>, last_report'),
                                     AfterMenuLines)
                  /\ pc' = "PostReportMenu"
             [] choice = "exit" ->
                  /\ console' = Emit(<<>>, <<"Goodbye!">>)
                  /\ pc' = "Done"
                  /\ UNCHANGED <<last_report, request>>
             [] OTHER ->
                  /\ console' = Emit(Emit(<<>>, <<"Unknown choice. Please select 1-4.">>),
                                     MainMenuLines)
                  /\ pc' = "MainMenu"
                  /\ UNCHANGED <<last_report, request>>
    /\ UNCHANGED <<error, csv, report_file, rows, daily, start, overwritten>>
    /\ UNCHANGED reservation_vars

\* a line read by the first parse_date_input of create_daily_report
StartDateInput(line) ==
    /\ pc = "AskStart"
    /\ stdin' = line
    /\ LET r == parse_date_input(line)
       IN  CASE r.kind = "return" ->
                  /\ start' = r.date
                  /\ console' = Emit(<<>>, <<EndPrompt>>)
                  /\ pc' = "AskEnd"
                  /\ error' = ""
             [] r.kind = "retry" ->
                  /\ console' = Emit(<<>>, <<InvalidDateMsg, StartPrompt>>)
                  /\ pc' = "AskStart"
                  /\ UNCHANGED <<start, error>>
             [] r.kind = "raise" ->
                  /\ Raise(r.err, "Crashed")
                  /\ UNCHANGED <<start, console>>
    /\ UNCHANGED <<csv, report_file, rows, daily, last_report, request, overwritten>>
    /\ UNCHANGED reservation_vars

\* the number of days the loop of create_daily_report runs through
SpanDays(a, b) ==
    IF ToOrdinal(a) <= ToOrdinal(b) THEN ToOrdinal(b) - ToOrdinal(a) + 1
    ELSE ToOrdinal(a) - ToOrdinal(b) + 1

\* a line read by the second parse_date_input of create_daily_report, the
\* rest of create_daily_report and main() up to the prompt of the after menu
EndDateInput(line) ==
    /\ pc = "AskEnd"
    /\ stdin' = line
    /\ LET r == parse_date_input(line)
       IN  CASE r.kind = "return" ->
                  /\ \E rep \in {create_daily_report(daily, start, r.date)} :
                         /\ daily' = rep.daily
                         /\ IF rep.err # ""
                            THEN /\ Raise(rep.err, "Crashed")
                                 /\ UNCHANGED <<last_report, request, console, start>>
                            ELSE /\ last_report' = rep.lines
                                 /\ request' = [kind |-> "range", start |-> start,
                                                end |-> r.date]
                                 /\ console' = Emit(print_report_to_console(<<>>, rep.lines),
                                                    AfterMenuLines)
                                 /\ start' = NoDate
                                 /\ pc' = "PostReportMenu"
                                 /\ error' = ""
             [] r.kind = "retry" ->
                  /\ console' = Emit(<<>>, <<InvalidDateMsg, EndPrompt>>)
                  /\ pc' = "AskEnd"
                  /\ UNCHANGED <<last_report, request, start, error, daily>>
             [] r.kind = "raise" ->
                  /\ Raise(r.err, "Crashed")
                  /\ UNCHANGED <<last_report, request, console, start, daily>>
    /\ UNCHANGED <<csv, report_file, rows, overwritten>>
    /\ UNCHANGED reservation_vars

\* the end dates explored after the start date entered: those whose range
\* has at most MaxSpanDays days
WithinSpan(line) ==
    /\ pc = "AskEnd"
    /\ parse_date_input(line).kind = "return" =>
           SpanDays(start, parse_date_input(line).date) <= MaxSpanDays

\* a line read by ask_int_in_range, the rest of create_monthly_report and
\* main() up to the prompt of the after menu
MonthInput(line) ==
    /\ pc = "AskMonth"
    /\ stdin' = line
    /\ LET r == ask_int_in_range(line, MinMonth, MaxMonth)
       IN  CASE r.kind = "return" ->
                  /\ last_report' = create_monthly_report(daily, r.val)
                  /\ request' = [kind |-> "month", month |-> r.val]
                  /\ console' = Emit(print_report_to_console(<<>>, last_report'),
                                     AfterMenuLines)
                  /\ pc' = "PostReportMenu"
             [] r.kind = "retry" ->
                  /\ console' = Emit(<<>>, <<r.msg, MonthPrompt>>)
                  /\ pc' = "AskMonth"
                  /\ UNCHANGED <<last_report, request>>
    /\ UNCHANGED <<error, csv, report_file, rows, daily, start, overwritten>>
    /\ UNCHANGED reservation_vars

\* a line read by show_after_menu, up to the next prompt
AfterMenuInput(line) ==
    /\ pc = "PostReportMenu"
    /\ stdin' = line
    /\ LET after == AfterChoice(Strip(line))
       IN  CASE after = "write" ->
                  /\ report_file' = write_report_to_file(report_file, last_report)
                  /\ overwritten' = Replaced(report_file, last_report)
                  /\ console' = Emit(Emit(<<>>, <<"Wrote report to report.txt">>),
                                     AfterMenuLines)
                  /\ pc' = "PostReportMenu"
             [] after = "new" ->
                  /\ console' = Emit(<<>>, MainMenuLines)
                  /\ pc' = "MainMenu"
                  /\ UNCHANGED <<report_file, overwritten>>
             [] after = "exit" ->
                  /\ console' = Emit(<<>>, <<"Goodbye!">>)
                  /\ pc' = "Done"
                  /\ UNCHANGED <<report_file, overwritten>>
             [] OTHER ->
                  /\ console' = Emit(Emit(<<>>, <<"Unknown choice. Please select 1-3.">>),
                                     AfterMenuLines)
                  /\ pc' = "PostReportMenu"
                  /\ UNCHANGED <<report_file, overwritten>>
    /\ UNCHANGED <<error, csv, rows, daily, last_report, start, request>>
    /\ UNCHANGED reservation_vars

Next ==
    \/ Startup
    \/ \E line \in MainMenuInputs : MainMenuInput(line)
    \/ \E line \in DateInputs : StartDateInput(line)
    \/ \E line \in DateInputs : WithinSpan(line) /\ EndDateInput(line)
    \/ \E line \in MonthInputs : MonthInput(line)
    \/ \E line \in AfterMenuInputs : AfterMenuInput(line)

Spec == Init /\ [][Next]_vars

(***************************************************************************)
(* Generated data files: a layout is the list of the columns of a file,    *)
(* each with its header name and the field its cells hold; a row gives     *)
(* the text of the cell of each field and the number of cells the line is  *)
(* cut to (0: not cut).                                                    *)
(***************************************************************************)
Col(name, kind) == [name |-> name, kind |-> kind]

LayoutPlain ==
    << Col("timestamp", "time"), Col("consumption", "cons"),
       Col("production", "prod"), Col("temperature", "temp") >>

\* names that match later candidates exactly but for the case of letters
LayoutLong ==
    << Col("Time", "time"), Col("Consumption (net) in kWh", "cons"),
       Col("Production (net) in kWh", "prod"), Col("Daily average temperature", "temp") >>

\* names that only contain a candidate
LayoutSubstring ==
    << Col("Start time (UTC)", "time"), Col("Total consumption", "cons"),
       Col("Solar production", "prod"), Col("Outdoor temp", "temp") >>

\* names with blanks around them
LayoutPadded ==
    << Col("timestamp", "time"), Col(" consumption", "cons"),
       Col("production ", "prod"), Col("temperature", "temp") >>

LayoutPaddedTime ==
    << Col(" timestamp ", "time"), Col("consumption", "cons"),
       Col("production", "prod"), Col("temperature", "temp") >>

\* columns that match a later candidate, or match only as a substring,
\* placed before the columns that match exactly
LayoutPrecedence ==
    << Col("time", "other"), Col("consumption forecast", "other"),
       Col("timestamp", "time"), Col("consumption", "cons"),
       Col("production", "prod"), Col("temperature", "temp") >>

LayoutNoTemperature ==
    << Col("timestamp", "time"), Col("consumption", "cons"), Col("production", "prod") >>

Layouts ==
    {LayoutPlain, LayoutLong, LayoutSubstring, LayoutPadded, LayoutPaddedTime,
     LayoutPrecedence, LayoutNoTemperature}

DataRow(time, cons, prod, temp, cut) ==
    [time |-> time, cons |-> cons, prod |-> prod, temp |-> temp, cut |-> cut]

RowNewYear == DataRow("2025-01-01T00:00:00", "1,5", "0.25", "10", 0)
RowNoon == DataRow("2025-01-01T12:00:00", "2", "0.5", "0", 0)
RowYearEnd == DataRow("2025-12-31T23:00:00", "3", "1", "-4,5", 0)
RowOtherYear == DataRow("2024-12-31T12:00:00", "4", "1", "8", 0)
RowEmptyCell == DataRow("2025-06-15T00:00:00", "", "2", "3", 0)
RowShort == DataRow("2025-06-16T00:00:00", "5", "2", "3", 2)
RowNoTime == DataRow("", "6", "2", "3", 0)

DataRows ==
    {RowNewYear, RowNoon, RowYearEnd, RowOtherYear, RowEmptyCell, RowShort, RowNoTime}

\* the text of the cell of a row in a column
CellText(row, col) ==
    CASE col.kind = "time" -> row.time
      [] col.kind = "cons" -> row.cons
      [] col.kind = "prod" -> row.prod
      [] col.kind = "temp" -> row.temp
      [] OTHER -> "7"

\* the line of a row in a file of the layout
RowLine(layout, row, delimiter) ==
    Join([i \in 1..(IF row.cut = 0 THEN Len(layout) ELSE row.cut) |->
              CellText(row, layout[i])], delimiter)

HeaderLine(layout, delimiter) ==
    Join([i \in 1..Len(layout) |-> layout[i].name], delimiter)

\* the file with the header of the layout and the two rows
DataFile(layout, delimiter, r1, r2) ==
    [exists |-> TRUE,
     text |-> HeaderLine(layout, delimiter) \o "\n"
                  \o RowLine(layout, r1, delimiter) \o "\n"
                  \o RowLine(layout, r2, delimiter) \o "\n"]

\* as many ";" as ",": the decimal commas and the commas of the notes
CsvTie ==
    "timestamp;consumption;production;temperature;note\n"
        \o "2025-01-01T00:00:00;1,5;2,5;3,5;a,b,c,d,e,f\n"

\* a note that fills the file beyond SampleLen characters, and after it a
\* row with more "," than the whole file has ";"
LongNote ==
    LET x10   == "xxxxxxxxxx"
        x100  == x10 \o x10 \o x10 \o x10 \o x10 \o x10 \o x10 \o x10 \o x10 \o x10
        x1000 == x100 \o x100 \o x100 \o x100 \o x100 \o x100 \o x100 \o x100 \o x100 \o x100
    IN  x1000 \o x1000

CsvLongNote ==
    "timestamp;consumption;production;temperature;note\n"
        \o "2025-01-01T00:00:00;1;2;3;" \o LongNote \o "\n"
        \o "2025-01-02T00:00:00;1,5;2,5;3,5;a,b,c,d,e,f,g,h,i,j,k,l,m,n\n"

\* neither ";" nor ","
CsvOneColumn == "timestamp\n" \o "2025-01-01T00:00:00\n"

DataFiles ==
    {DataFile(layout, delimiter, r1, r2) :
        layout \in Layouts, delimiter \in {";", ","}, r1 \in DataRows, r2 \in DataRows}
    \cup {[exists |-> TRUE, text |-> t] : t \in {CsvTie, CsvLongNote, CsvOneColumn}}

\* the dates entered in the exploration of the generated files
YearDateInputs == {"1.1.2025", "31.12.2025"}

DataInit ==
    /\ pc = "Start"
    /\ error = ""
    /\ csv \in DataFiles
    /\ report_file = [exists |-> FALSE, text |-> ""]
    /\ rows = <<>>
    /\ daily = <<>>
    /\ last_report = <<>>
    /\ start = NoDate
    /\ request = NoRequest
    /\ stdin = ""
    /\ overwritten = NoWrite
    /\ console = <<>>
    /\ NoReservationRun

\* the load of the file, the year report and the range reports over the
\* dates of YearDateInputs
DataNext ==
    \/ Startup
    \/ \E line \in {"1", "3"} : MainMenuInput(line)
    \/ \E line \in YearDateInputs : StartDateInput(line)
    \/ \E line \in YearDateInputs : EndDateInput(line)

DataSpec == DataInit /\ [][DataNext]_vars

(***************************************************************************)
(* The reservation reports of TaskC/task_c.py, TaskG/task_g_dict.py and    *)
(* TaskG/task_g_class.py: section 2 of each, on the list of reservations   *)
(* that fetch_reservations returned.  A reservation is modelled with the   *)
(* fields that section 2 prints or tests.                                  *)
(***************************************************************************)
Reservation(name, date, time, duration, resource) ==
    [name |-> name, date |-> date, time |-> time, duration |-> duration,
     resource |-> resource]

\* date.strftime("%d.%m.%Y") and time.strftime("%H.%M")
StrfDate(d) == TwoDigits(d.day) \o "." \o TwoDigits(d.month) \o "." \o ToString(d.year)
StrfTime(t) == TwoDigits(t.hour) \o "." \o TwoDigits(t.minute)

\* the line the three long_reservations print for a reservation
LongLine(r) ==
    "- " \o r.name \o ", " \o StrfDate(r.date) \o " at " \o StrfTime(r.time)
         \o ", duration " \o ToString(r.duration) \o " h, " \o r.resource

\* Reservation.is_long of task_g_class.py
is_long(r) == r.duration >= 3

\* the lines printed for the reservations of a list, in its order
LongLines(selected) == [i \in 1..Len(selected) |-> LongLine(selected[i])]

\* long_reservations of task_c.py: the lines it prints
long_reservations_c(rs) ==
    LET Test(r) == r.duration >= 3 IN LongLines(SelectSeq(rs, Test))

\* long_reservations of task_g_dict.py
long_reservations_dict(rs) ==
    LET Test(r) == r.duration > 3 IN LongLines(SelectSeq(rs, Test))

\* long_reservations of task_g_class.py
long_reservations_class(rs) ==
    LET Test(r) == r.duration > 3 IN LongLines(SelectSeq(rs, Test))

LongHeader == "2) Long Reservations (>= 3 h)"

ReservationSamples ==
    { Reservation("Anna", MkDate(2025, 3, 1), [hour |-> 9, minute |-> 0], 2, "Room A"),
      Reservation("Ben", MkDate(2025, 3, 2), [hour |-> 13, minute |-> 30], 3, "Room B"),
      Reservation("Cleo", MkDate(2025, 11, 15), [hour |-> 8, minute |-> 5], 4, "Sauna"),
      Reservation("Dan", MkDate(2025, 3, 2), [hour |-> 13, minute |-> 30], 1, "Room B") }

\* the lists of at most MaxReservations reservations
ReservationLists ==
    UNION {[1..n -> ReservationSamples] : n \in 0..MaxReservations}

task_f_vars == <<pc, error, csv, report_file, rows, daily, last_report, start, request,
                 stdin, overwritten, console>>

ReservationInit ==
    /\ pc = "Start"
    /\ error = ""
    /\ csv = MissingFile
    /\ report_file = [exists |-> FALSE, text |-> ""]
    /\ rows = <<>>
    /\ daily = <<>>
    /\ last_report = <<>>
    /\ start = NoDate
    /\ request = NoRequest
    /\ stdin = ""
    /\ overwritten = NoWrite
    /\ console = <<>>
    /\ reservations \in ReservationLists
    /\ stdout_c = <<>>
    /\ stdout_dict = <<>>
    /\ stdout_class = <<>>

\* main() of task_c.py: the header of section 2 and long_reservations
TaskCSection2 ==
    /\ stdout_c = <<>>
    /\ stdout_c' = <<LongHeader>> \o long_reservations_c(reservations)
    /\ UNCHANGED <<reservations, stdout_dict, stdout_class>>
    /\ UNCHANGED task_f_vars

\* main() of task_g_dict.py: the header of section 2 and long_reservations
TaskGDictSection2 ==
    /\ stdout_dict = <<>>
    /\ stdout_dict' = <<LongHeader>> \o long_reservations_dict(reservations)
    /\ UNCHANGED <<reservations, stdout_c, stdout_class>>
    /\ UNCHANGED task_f_vars

\* main() of task_g_class.py: the header of section 2 and long_reservations
TaskGClassSection2 ==
    /\ stdout_class = <<>>
    /\ stdout_class' = <<LongHeader>> \o long_reservations_class(reservations)
    /\ UNCHANGED <<reservations, stdout_c, stdout_dict>>
    /\ UNCHANGED task_f_vars

ReservationNext ==
    \/ TaskCSection2
    \/ TaskGDictSection2
    \/ TaskGClassSection2

ReservationSpec == ReservationInit /\ [][ReservationNext]_vars

(***************************************************************************)
(* Properties.                                                             *)
(***************************************************************************)
\* the report main() holds for a request, computed anew
ReportOf(req) ==
    CASE req.kind = "range" -> create_daily_report(daily, req.start, req.end).lines
      [] req.kind = "month" -> create_monthly_report(daily, req.month)
      [] req.kind = "year" -> create_yearly_report(rows)
      [] OTHER -> <<>>

StartsWith(s, prefix) == SubSeq(s, 1, Len(prefix)) = prefix

MenuChoices == {"1", "2", "3", "4"}
AfterChoices == {"1", "2", "3"}

\* C1: in the main menu the trimmed line "1" starts the range report, "2"
\* the month report, "3" produces the year report, "4" ends the program,
\* and any other line prints the error message and the menu again and
\* leaves the program in the main menu, however often that happens; the
\* reports that come out of the range and month prompts are of that kind.
C1_MainMenuDispatch ==
    [][ /\ pc = "MainMenu" =>
             LET choice == Strip(stdin')
             IN  /\ choice = "1" => pc' = "AskStart" /\ console' = <<StartPrompt>>
                 /\ choice = "2" => pc' = "AskMonth" /\ console' = <<MonthPrompt>>
                 /\ choice = "3" => /\ pc' = "PostReportMenu"
                                    /\ request' = [kind |-> "year"]
                                    /\ last_report'[2] = "Report for the year: 2025"
                 /\ choice = "4" => pc' = "Done"
                 /\ choice \notin MenuChoices =>
                        /\ pc' = "MainMenu"
                        /\ console' = <<"Unknown choice. Please select 1-4.">>
                                          \o MainMenuLines
                        /\ UNCHANGED <<last_report, request, report_file, error>>
        /\ (pc = "AskEnd" /\ pc' = "PostReportMenu") =>
               /\ request'.kind = "range"
               /\ StartsWith(last_report'[2], "Report for the period ")
        /\ (pc = "AskMonth" /\ pc' = "PostReportMenu") =>
               /\ request'.kind = "month"
               /\ StartsWith(last_report'[2], "Report for the month: ")
      ]_vars

\* C1 witness: an unrecognised line was entered in the main menu and the
\* menu is shown again
C1_Witness ==
    /\ pc = "MainMenu"
    /\ Strip(stdin) \notin MenuChoices
    /\ console = <<"Unknown choice. Please select 1-4.">> \o MainMenuLines

\* a step in which a report is produced or the after-report menu is entered
ReportStep ==
    \/ last_report' # last_report
    \/ request' # request
    \/ pc # "PostReportMenu" /\ pc' = "PostReportMenu"

\* C2: whenever a report is produced, its five lines are written to the
\* console in order, followed by the after-report menu, and the program is
\* then in the after-report menu.
C2_ReportPrintedThenPostMenu ==
    [][ ReportStep =>
            /\ pc' = "PostReportMenu"
            /\ Len(last_report') = 5
            /\ last_report' = ReportOf(request')
            /\ console' = last_report' \o AfterMenuLines
      ]_vars

\* C2 witness: a range report with data was produced and printed
C2_Witness ==
    /\ pc = "PostReportMenu"
    /\ request.kind = "range"
    /\ console = last_report \o AfterMenuLines
    /\ last_report[3] # "- Total consumption: 0,00 kWh"

\* C3: in the after-report menu the trimmed line "1" writes the current
\* report to report.txt and stays in the menu, "2" returns to the main menu
\* and "3" ends the program, both without writing, and any other line
\* prints the error message and the menu again.
C3_PostReportMenuDispatch ==
    [][ pc = "PostReportMenu" =>
            LET after == Strip(stdin')
            IN  /\ after = "1" =>
                       /\ pc' = "PostReportMenu"
                       /\ report_file'.exists
                       /\ StartsWith(report_file'.text, Divider \o "\n" \o last_report[2])
                       /\ console' = <<"Wrote report to report.txt">> \o AfterMenuLines
                /\ after = "2" =>
                       /\ pc' = "MainMenu"
                       /\ console' = MainMenuLines
                       /\ report_file' = report_file
                /\ after = "3" => pc' = "Done" /\ report_file' = report_file
                /\ after \notin AfterChoices =>
                       /\ pc' = "PostReportMenu"
                       /\ console' = <<"Unknown choice. Please select 1-3.">>
                                         \o AfterMenuLines
                       /\ report_file' = report_file
                /\ UNCHANGED <<last_report, request>>
      ]_vars

\* C3 witness: the same report was written twice in a row
C3_Witness ==
    /\ pc = "PostReportMenu"
    /\ Strip(stdin) = "1"
    /\ overwritten = "same report"

\* the last line read was the choice to write, and it was carried out
JustSaved ==
    /\ pc = "PostReportMenu"
    /\ console = <<"Wrote report to report.txt">> \o AfterMenuLines

\* C4: right after a save report.txt holds the lines of the most recently
\* generated report, each followed by one newline, and nothing else,
\* whatever the file held before.
C4_FileIsLastReport ==
    JustSaved =>
        /\ report_file.exists
        /\ Len(last_report) = 5
        /\ last_report = ReportOf(request)
        /\ Split(report_file.text, "\n") = last_report \o <<"">>

\* C4 witness: a report was saved over another report saved before
C4_Witness ==
    /\ JustSaved
    /\ overwritten = "other report"
    /\ Split(report_file.text, "\n") = last_report \o <<"">>

LoopStates == {"MainMenu", "AskStart", "AskEnd", "AskMonth", "PostReportMenu"}

\* C5: the menu loop ends only by the choice "4" in the main menu or "3" in
\* the after-report menu, and then in Done; no other line ends it.
C5_OnlyExplicitExit ==
    [][ (pc \in LoopStates /\ pc' \notin LoopStates) =>
            /\ pc' = "Done"
            /\ \/ pc = "MainMenu" /\ Strip(stdin') = "4"
               \/ pc = "PostReportMenu" /\ Strip(stdin') = "3"
      ]_vars

\* the header of a data file as read_data sees it
HeaderOf(file) ==
    IF Len(Lines(file.text)) = 0 THEN <<>>
    ELSE CsvRow(Lines(file.text)[1], DetectDelimiter(file.text))

ColumnUnresolved(file) ==
    \E candidates \in {TimeCandidates, ConsCandidates, ProdCandidates, TempCandidates} :
        ~find_col(Normalized(HeaderOf(file)), candidates).ok

NoRowsParsed(file) == LoadRows(file).err = "" /\ LoadRows(file).rows = <<>>

BadDataFile(file) ==
    \/ ~file.exists
    \/ ColumnUnresolved(file)
    \/ NoRowsParsed(file)

\* C6: with a missing data file, an unresolved column or no parsed row the
\* program ends at startup with FileNotFoundError or ValueError: nothing is
\* written to the console, no report exists, report.txt is untouched, and
\* nothing happens afterwards.
C6_BadDataAbortsStartup ==
    [][ /\ (pc = "Start" /\ BadDataFile(csv)) =>
               /\ pc' = "Aborted"
               /\ error' = IF csv.exists THEN "ValueError" ELSE "FileNotFoundError"
               /\ console' = <<>>
               /\ last_report' = <<>>
               /\ report_file' = report_file
        /\ pc # "Aborted"
      ]_vars

\* C6 witness: startup was aborted because a column could not be resolved
C6_Witness ==
    /\ pc = "Aborted"
    /\ error = "ValueError"
    /\ csv.exists
    /\ ColumnUnresolved(csv)
    /\ console = <<>>

IsCalendarDate(d) ==
    /\ d.year \in MinYear..MaxYear
    /\ d.month \in 1..12
    /\ d.day \in 1..DaysInMonth(d.year, d.month)

\* C7: on every line, the date prompt returns a calendar date or prompts
\* again and the month prompt returns a number from 1 to 12 or prompts
\* again; neither raises.
C7_PromptsNeverRaise ==
    [][ /\ pc \in {"AskStart", "AskEnd"} =>
               LET r == parse_date_input(stdin')
               IN  /\ r.kind \in {"return", "retry"}
                   /\ r.kind = "retry" =>
                          pc' = pc /\ console'[1] = InvalidDateMsg
                   /\ r.kind = "return" => IsCalendarDate(r.date)
        /\ pc = "AskMonth" =>
               LET r == ask_int_in_range(stdin', MinMonth, MaxMonth)
               IN  /\ r.kind \in {"return", "retry"}
                   /\ r.kind = "retry" => pc' = pc
                   /\ r.kind = "return" => r.val \in 1..12 /\ request'.month = r.val
      ]_vars

\* C8: the range report does not depend on the order of its two dates: what
\* the program does with the dates as entered is what create_daily_report
\* does with the two dates exchanged, the same five lines or the same
\* failure; an end date before the start date is not rejected.
C8_RangeSymmetric ==
    [][ (pc = "AskEnd" /\ parse_date_input(stdin').kind = "return") =>
            LET end     == parse_date_input(stdin').date
                swapped == create_daily_report(daily, end, start)
            IN  IF swapped.err # ""
                THEN pc' = "Crashed" /\ error' = swapped.err
                ELSE /\ pc' = "PostReportMenu"
                     /\ Len(swapped.lines) = 5
                     /\ last_report' = swapped.lines
      ]_vars

\* C8 witness: a report with data for an end date entered before the start
C8_Witness ==
    /\ pc = "PostReportMenu"
    /\ request.kind = "range"
    /\ DateLT(request.end, request.start)
    /\ last_report[3] # "- Total consumption: 0,00 kWh"

ZeroMetricLines ==
    << "- Total consumption: 0,00 kWh",
       "- Total production: 0,00 kWh",
       "- Average temperature: 0,00 °C" >>

\* no measurement of the loaded rows lies in the requested range
NoDayInRange(req) ==
    LET lo == IF DateLT(req.end, req.start) THEN req.end ELSE req.start
        hi == IF DateLT(req.end, req.start) THEN req.start ELSE req.end
    IN  \A i \in 1..Len(rows) :
            LET d == DateOf(rows[i].timestamp)
            IN  DateLT(d, lo) \/ DateLT(hi, d)

\* C9: a range report over a range without any measurement shows 0,00 for
\* consumption, production and average temperature.
C9_EmptyRangeIsZero ==
    (request.kind = "range" /\ NoDayInRange(request)) =>
        /\ Len(last_report) = 5
        /\ SubSeq(last_report, 3, 5) = ZeroMetricLines

\* C9 witness: a range report over a day without measurements
C9_Witness ==
    /\ pc = "PostReportMenu"
    /\ request.kind = "range"
    /\ rows # <<>>
    /\ NoDayInRange(request)
    /\ SubSeq(last_report, 3, 5) = ZeroMetricLines

\* sum of f over the set S
RECURSIVE SumOver(_, _)
SumOver(f, S) ==
    IF S = {} THEN Zero
    ELSE LET x == CHOOSE y \in S : TRUE
         IN  RatAdd(f[x], SumOver(f, S \ {x}))

\* the rows of the requested month of 2025 and their days
MonthRows(m) ==
    {i \in 1..Len(rows) : rows[i].timestamp.year = 2025 /\ rows[i].timestamp.month = m}

MonthDays(m) == {DateOf(rows[i].timestamp) : i \in MonthRows(m)}

RowsOfDay(d) == {i \in 1..Len(rows) : DateOf(rows[i].timestamp) = d}

DayMean(d) ==
    RatDivInt(SumOver([i \in RowsOfDay(d) |-> rows[i].temperature_c], RowsOfDay(d)),
              Cardinality(RowsOfDay(d)))

MeanOfDayMeans(m) ==
    IF MonthDays(m) = {} THEN Zero
    ELSE RatDivInt(SumOver([d \in MonthDays(m) |-> DayMean(d)], MonthDays(m)),
                   Cardinality(MonthDays(m)))

\* C10: the month report sums consumption and production over all rows of
\* the month in 2025 and averages the temperature as the mean of the days'
\* own means; without such a day all three are 0,00; for one day with one
\* reading of 10 and one day with three readings of 0 the average is 5,00.
C10_MonthMeanOfDayMeans ==
    request.kind = "month" =>
        LET m == request.month
        IN  /\ Len(last_report) = 5
            /\ last_report[3] = "- Total consumption: "
                   \o format_float_fi(SumOver([i \in MonthRows(m) |-> rows[i].consumption_kwh],
                                              MonthRows(m))) \o " kWh"
            /\ last_report[4] = "- Total production: "
                   \o format_float_fi(SumOver([i \in MonthRows(m) |-> rows[i].production_kwh],
                                              MonthRows(m))) \o " kWh"
            /\ last_report[5] = "- Average temperature: "
                   \o format_float_fi(MeanOfDayMeans(m)) \o " °C"
            /\ MonthDays(m) = {} => SubSeq(last_report, 3, 5) = ZeroMetricLines
            /\ (csv.text = CsvMixed /\ m = 1) =>
                   last_report[5] = "- Average temperature: 5,00 °C"

\* C10 witness: the month report for January of the mixed data, where one
\* day has one reading of 10 and the other three readings of 0
C10_Witness ==
    /\ pc = "PostReportMenu"
    /\ request = [kind |-> "month", month |-> 1]
    /\ csv.text = CsvMixed
    /\ Cardinality(MonthDays(1)) = 2
    /\ last_report[5] = "- Average temperature: 5,00 °C"

\* the program has loaded its data
Loaded == pc \notin {"Start", "Aborted"}

\* C11: the daily index partitions the measurement list: the keys are
\* distinct, the bucket of a key holds exactly the measurements whose
\* timestamp has that date, in the order of the list, no bucket is empty,
\* every measurement's date has a bucket and the buckets together hold as
\* many measurements as the list.
C11_DailyIndexPartitions ==
    Loaded =>
        /\ \A i, j \in 1..Len(daily) : daily[i].key = daily[j].key => i = j
        /\ \A i \in 1..Len(daily) :
               LET OfDay(m) == DateOf(m.timestamp) = daily[i].key
               IN  /\ daily[i].rows = SelectSeq(rows, OfDay)
                   /\ daily[i].rows # <<>>
        /\ \A k \in 1..Len(rows) :
               \E i \in 1..Len(daily) : daily[i].key = DateOf(rows[k].timestamp)
        /\ RatSum([i \in 1..Len(daily) |-> Rat(Len(daily[i].rows), 1)]).n = Len(rows)

\* C11 witness: two different measurements of one day were loaded into one
\* bucket, in the order of the file
C11_Witness ==
    /\ Loaded
    /\ Len(rows) = 2
    /\ rows[1] # rows[2]
    /\ Len(daily) = 1
    /\ daily[1].rows = rows

\* the files with the plain header whose two rows have a timestamp and
\* whose only flaw is a numeric cell that is empty or cut off
MissingCellFiles ==
    {DataFile(LayoutPlain, ";", r1, r2) : r1, r2 \in {RowNewYear, RowEmptyCell, RowShort}}

\* the value the claim gives the numeric cell in column i of a row
ValueOrZero(row, text, i) ==
    IF text = "" \/ (row.cut # 0 /\ i > row.cut) THEN Zero ELSE parse_float_fi(text).val

\* the measurement the claim has a row of a file with the plain header
\* loaded as
ZeroFilled(row) ==
    Measurement(FromIsoFormat(row.time), ValueOrZero(row, row.cons, 2),
                ValueOrZero(row, row.prod, 3), ValueOrZero(row, row.temp, 4))

\* C12: a row with a timestamp whose consumption, production or
\* temperature cell is empty or cut off is loaded with zero in that field,
\* and the load does not fail because of it.
C12_MissingCellsReadAsZero ==
    [][ pc = "Start" =>
            \A r1, r2 \in {RowNewYear, RowEmptyCell, RowShort} :
                csv = DataFile(LayoutPlain, ";", r1, r2) =>
                    /\ pc' = "MainMenu"
                    /\ rows' = <<ZeroFilled(r1), ZeroFilled(r2)>>
      ]_vars

\* the load ended with ValueError on a file whose only flaw is a missing
\* numeric cell
C12_MissingCellAborts ==
    /\ pc = "Aborted"
    /\ error = "ValueError"
    /\ csv \in MissingCellFiles

\* the number of characters c among the first n characters of the text
CountInPrefix(text, c, n) ==
    Cardinality({i \in 1..Len(text) : i <= n /\ Ch(text, i) = c})

\* the field separator the claim gives a text
SeparatorByCount(text) ==
    IF CountInPrefix(text, ",", 2000) > CountInPrefix(text, ";", 2000) THEN "," ELSE ";"

\* C13: the file is read with "," as the field separator if "," occurs
\* strictly more often than ";" among its first 2000 characters and with
\* ";" otherwise: the outcome of the load is the outcome of reading the
\* lines of the file with that separator.
C13_DelimiterByCount ==
    [][ (pc = "Start" /\ csv.exists) =>
            LET Outcome(r) ==
                    IF r.err # "" THEN pc' = "Aborted" /\ error' = r.err
                    ELSE IF r.rows = <<>> THEN pc' = "Aborted" /\ error' = "ValueError"
                    ELSE pc' = "MainMenu" /\ rows' = r.rows
            IN  Outcome(ReadDelimited(Lines(csv.text), SeparatorByCount(csv.text)))
      ]_vars

\* C13 witness: a file was loaded with ";" that has more "," than ";" in
\* all, but not among its first 2000 characters
C13_Witness ==
    /\ Loaded
    /\ Len(csv.text) > 2000
    /\ CountInPrefix(csv.text, ",", Len(csv.text)) > CountInPrefix(csv.text, ";", Len(csv.text))
    /\ SeparatorByCount(csv.text) = ";"
    /\ Len(rows) = 2

\* C14: once the data is loaded, no line entered in a menu or at a prompt,
\* no report and no save changes the measurement list or the daily index.
C14_DataReadOnly ==
    [][ Loaded => (rows' = rows /\ daily' = daily) ]_vars

\* C14 witness: a range report over days that the index has no bucket for
\* was produced and then saved, and the index is still the one built from
\* the measurement list
C14_Witness ==
    /\ JustSaved
    /\ request.kind = "range"
    /\ rows # <<>>
    /\ NoDayInRange(request)
    /\ daily = build_daily_index(rows)

\* the earlier and the later of the two dates of a range request
RangeLo(req) == IF DateLT(req.end, req.start) THEN req.end ELSE req.start
RangeHi(req) == IF DateLT(req.end, req.start) THEN req.start ELSE req.end

\* the measurements whose date lies in the range of the request, both ends
\* included
RowsInRange(req) ==
    {i \in 1..Len(rows) :
        /\ ~DateLT(DateOf(rows[i].timestamp), RangeLo(req))
        /\ ~DateLT(RangeHi(req), DateOf(rows[i].timestamp))}

\* the mean of the temperatures of a set of measurements, each reading
\* counted once
FlatMean(S) ==
    IF S = {} THEN Zero
    ELSE RatDivInt(SumOver([i \in S |-> rows[i].temperature_c], S), Cardinality(S))

\* C15: the range report totals consumption and production over exactly
\* the measurements dated from the earlier to the later of the two dates,
\* both included, and its average temperature is the mean of the single
\* readings of those measurements.
C15_RangeSumsAndFlatMean ==
    request.kind = "range" =>
        /\ Len(last_report) = 5
        /\ last_report[3] = "- Total consumption: "
               \o format_float_fi(SumOver([i \in RowsInRange(request) |->
                                              rows[i].consumption_kwh],
                                          RowsInRange(request))) \o " kWh"
        /\ last_report[4] = "- Total production: "
               \o format_float_fi(SumOver([i \in RowsInRange(request) |->
                                              rows[i].production_kwh],
                                          RowsInRange(request))) \o " kWh"
        /\ last_report[5] = "- Average temperature: "
               \o format_float_fi(FlatMean(RowsInRange(request))) \o " °C"

\* C15 witness: the report over 1.1.2025 to 3.1.2025 of the mixed data,
\* one reading of 10 on the first day and three readings of 0 on the
\* second: the average is 2,50 and not the 5,00 of the days' means
C15_Witness ==
    /\ pc = "PostReportMenu"
    /\ request.kind = "range"
    /\ csv.text = CsvMixed
    /\ Cardinality(RowsInRange(request)) = 4
    /\ last_report[5] = "- Average temperature: 2,50 °C"

\* the rows of the generated files that have a timestamp and all three
\* numbers
CompleteRows == {RowNewYear, RowNoon, RowYearEnd, RowOtherYear}

\* the column the claim resolves a field to: with the header names trimmed
\* and letter case ignored, the first header equal to the earliest
\* candidate that equals any header; if there is none, the first header
\* containing the earliest candidate that any header contains; 0 if none
ColumnByRule(layout, candidates) ==
    LET name(i) == Lower(Strip(layout[i].name))
        pairs == (1..Len(candidates)) \X (1..Len(layout))
        exact == {p \in pairs : name(p[2]) = Lower(candidates[p[1]])}
        inside == {p \in pairs : Contains(name(p[2]), Lower(candidates[p[1]]))}
        First(S) == (CHOOSE p \in S : \A q \in S :
                         p[1] < q[1] \/ (p[1] = q[1] /\ p[2] <= q[2]))[2]
    IN  IF exact # {} THEN First(exact)
        ELSE IF inside # {} THEN First(inside)
        ELSE 0

\* the number a row of a file of the layout holds in the column resolved
\* for the candidates
NumberByRule(layout, row, candidates) ==
    parse_float_fi(CellText(row, layout[ColumnByRule(layout, candidates)])).val

\* the measurement a row is loaded as when each field is read from the
\* column resolved for it
RowByRule(layout, row) ==
    Measurement(FromIsoFormat(CellText(row, layout[ColumnByRule(layout, TimeCandidates)])),
                NumberByRule(layout, row, ConsCandidates),
                NumberByRule(layout, row, ProdCandidates),
                NumberByRule(layout, row, TempCandidates))

AllResolved(layout) ==
    \A candidates \in {TimeCandidates, ConsCandidates, ProdCandidates, TempCandidates} :
        ColumnByRule(layout, candidates) # 0

\* C16: each field is resolved against the trimmed header names, an exact
\* match of a candidate, taken in list order and without regard to case,
\* before any substring match; the load fails only if a field has no
\* match; and every row's value of a field is read from the column
\* resolved, also when the header names of the file have blanks around
\* them.
C16_ColumnsResolvedAndRead ==
    [][ pc = "Start" =>
            \A layout \in Layouts : \A r1, r2 \in CompleteRows :
                csv = DataFile(layout, ";", r1, r2) =>
                    IF AllResolved(layout)
                    THEN /\ pc' = "MainMenu"
                         /\ rows' = <<RowByRule(layout, r1), RowByRule(layout, r2)>>
                    ELSE pc' = "Aborted" /\ error' = "ValueError"
      ]_vars

\* a file whose consumption and production headers have blanks around
\* them was loaded, with 0 for a consumption that the file gives as 1,5
C16_PaddedHeaderReadsZero ==
    /\ Loaded
    /\ csv = DataFile(LayoutPadded, ";", RowNewYear, RowNewYear)
    /\ rows[1].consumption_kwh = Zero
    /\ RowByRule(LayoutPadded, RowNewYear).consumption_kwh = Rat(1500, 10)

\* C18: report.txt changes only when the trimmed line "1" is entered in
\* the after-report menu; lines entered in the main menu and at the
\* prompts, the reports produced, and every other line entered in the
\* after-report menu leave it as it is.
C18_OnlySaveWritesFile ==
    [][ report_file' # report_file =>
            (pc = "PostReportMenu" /\ Strip(stdin') = "1") ]_vars

\* C18 witness: a report was saved, then another report was produced and
\* not saved: the file holds five report lines that are not the lines of
\* the current report
C18_Witness ==
    /\ pc = "PostReportMenu"
    /\ overwritten # NoWrite
    /\ console = last_report \o AfterMenuLines
    /\ report_file.exists
    /\ Len(Split(report_file.text, "\n")) = 6
    /\ Split(report_file.text, "\n")[1] = Divider
    /\ Split(report_file.text, "\n") # last_report \o <<"">>

\* the first and the last day of 2025
YearStart == MkDate(2025, 1, 1)
YearEnd == MkDate(2025, 12, 31)

\* the request is the range report over the whole of 2025
FullYearRange(req) ==
    /\ req.kind = "range"
    /\ {req.start, req.end} = {YearStart, YearEnd}

\* C19: for the data loaded, the range report over 1.1.2025 to 31.12.2025
\* and the year report show the same total consumption, total production
\* and average temperature.
C19_FullYearRangeIsYearReport ==
    /\ FullYearRange(request) =>
           SubSeq(last_report, 3, 5) = SubSeq(create_yearly_report(rows), 3, 5)
    /\ request.kind = "year" =>
           SubSeq(last_report, 3, 5) =
               SubSeq(create_daily_report(daily, YearStart, YearEnd).lines, 3, 5)

\* C19 witness: the range report over the whole of 2025 for a file with
\* one measurement of 2025 and one of 2024
C19_Witness ==
    /\ pc = "PostReportMenu"
    /\ FullYearRange(request)
    /\ Len(rows) = 2
    /\ rows[1].timestamp.year = 2024
    /\ rows[2].timestamp.year = 2025
    /\ last_report[3] = "- Total consumption: 3,00 kWh"
    /\ SubSeq(last_report, 3, 5) = SubSeq(create_yearly_report(rows), 3, 5)

\* C20: once both date prompts have returned their dates, whichever dates
\* of the calendar they are and in whichever order, the day loop ends and
\* the five lines of the report are returned: the program goes on to the
\* after-report menu and nothing is raised.
C20_RangeReportNeverRaises ==
    [][ (pc = "AskEnd" /\ parse_date_input(stdin').kind = "return") =>
            /\ pc' = "PostReportMenu"
            /\ error' = ""
            /\ Len(last_report') = 5
      ]_vars

\* the program ended with ValueError in the day loop after the last date
\* of the calendar was entered as the end of the range
C20_LastDayCrashes ==
    /\ pc = "Crashed"
    /\ error = "ValueError"
    /\ parse_date_input(stdin).kind = "return"
    /\ parse_date_input(stdin).date = MkDate(MaxYear, 12, 31)

\* the reservations of the list that last at least three hours, in the
\* order of the list
AtLeastThreeHours(rs) ==
    LET Long(r) == r.duration >= 3 IN SelectSeq(rs, Long)

\* a section 2 as the claim has it: the header and one line for each
\* reservation of at least three hours, in input order
ClaimedSection2 == <<LongHeader>> \o LongLines(AtLeastThreeHours(reservations))

\* C17: in each of the three reservation reports, the lines under the
\* header "2) Long Reservations (>= 3 h)" are those of exactly the
\* reservations of at least 3 hours, in input order, and these are the
\* reservations for which is_long() holds.
C17_LongSectionListsThreeHoursAndMore ==
    /\ stdout_c # <<>> => stdout_c = ClaimedSection2
    /\ stdout_dict # <<>> => stdout_dict = ClaimedSection2
    /\ stdout_class # <<>> => stdout_class = ClaimedSection2
    /\ \A i \in 1..Len(reservations) :
           is_long(reservations[i]) <=> reservations[i].duration >= 3

\* the class version printed its section 2 without a reservation of
\* exactly three hours, for which is_long() holds, while the list version
\* printed it
C17_ThreeHoursLeftOut ==
    /\ stdout_c # <<>>
    /\ stdout_class # <<>>
    /\ stdout_dict = stdout_class
    /\ stdout_class # stdout_c
    /\ stdout_c = ClaimedSection2
    /\ \E i \in 1..Len(reservations) :
           reservations[i].duration = 3 /\ is_long(reservations[i])

====
